---- MODULE Spec2Model ----
(***************************************************************************)
(* A model of src/process_ilastik.py: the Ilastik driver's constructor,    *)
(* adjust, read_region_images, export_empty_cluster_map, post_processing,  *)
(* save_overlay and the command-line entry point.                          *)
(*                                                                         *)
(* An image is a record [rows, cols, dtype, px] whose px maps <<i, j>>     *)
(* (0-based, as numpy indexes) to the sample value.                        *)
(***************************************************************************)
EXTENDS Integers, Sequences, FiniteSets, TLC

VARIABLES
    pc,        \* position of the operation or of the command-line script
    adjIn,     \* adjust: its arguments [img, nb_rows, nb_cols, fill_value]
    adjOut,    \* adjust: [status, img], the value returned or the error raised
    regIn,     \* read_region_images: the rescaled classifier image and the reference shape
    regOut,    \* read_region_images / export_empty_cluster_map: masks and cluster map
    fileImg,   \* the classifier output file settings.ilastik_filename (8-bit pixels)
    postOut,   \* post_processing: what it read and how it ended
    ovOut,     \* save_overlay: the segmentation after each reassignment
    env,       \* constructor arguments, command-line flags, folders on disk at the start
    drv,       \* the driver built: self.settings, the error raised, folders on disk
    log        \* the script's banners and operation calls, in order

vars == <<pc, adjIn, adjOut, regIn, regOut, fileImg, postOut, ovOut, env, drv, log>>

None == "None"

Min(a, b) == IF a < b THEN a ELSE b
Max(a, b) == IF a > b THEN a ELSE b

Pixels(rows, cols) == (0 .. rows - 1) \X (0 .. cols - 1)

(***************************************************************************)
(* Ilastik.adjust                                                          *)
(***************************************************************************)

\* Largest source and target extent, per axis, of the images adjust is tried on.
MaxDim == 6

\* The fill values the program passes: the default (line 40) and 255 (line 66).
FillValues == {0, 255}

Dtypes == {"uint8", "float64"}

\* numpy's type of  np.zeros(shape, dtype) + fill_value  for a Python int
\* fill_value: the array's dtype unless the value does not fit it.
ResultType(dtype, fill_value) ==
    IF dtype = "uint8" /\ fill_value > 255 THEN "uint16"
    ELSE IF dtype = "uint8" /\ fill_value < 0 THEN "int16"
    ELSE dtype

\* imout = np.zeros((nb_rows, nb_cols), dtype=img.dtype) + fill_value
Canvas(img, nb_rows, nb_cols, fill_value) ==
    [rows  |-> nb_rows,
     cols  |-> nb_cols,
     dtype |-> ResultType(img.dtype, fill_value),
     px    |-> [p \in Pixels(nb_rows, nb_cols) |-> fill_value]]

\* A plausible slip: the crop keeps the centre rows instead of the first ones.
CropRowsCentre(img, nb_rows) ==
    IF img.rows > nb_rows
    THEN LET off == (img.rows - nb_rows) \div 2
         IN  [img EXCEPT !.rows = nb_rows,
                         !.px = [p \in Pixels(nb_rows, img.cols) |->
                                    img.px[<<p[1] + off, p[2]>>]]]
    ELSE img

\* if img.shape[0] > nb_rows: img = img[:nb_rows,:]
CropRows(img, nb_rows) ==
    IF img.rows > nb_rows
    THEN [img EXCEPT !.rows = nb_rows,
                     !.px = [p \in Pixels(nb_rows, img.cols) |-> img.px[p]]]
    ELSE img

\* A plausible slip: the columns are never cropped.
CropColsNone(img, nb_cols) == img

\* if img.shape[1] > nb_cols: img = img[:,:nb_cols]
CropCols(img, nb_cols) ==
    IF img.cols > nb_cols
    THEN [img EXCEPT !.cols = nb_cols,
                     !.px = [p \in Pixels(img.rows, nb_cols) |-> img.px[p]]]
    ELSE img

\* A plausible slip: the offset is rounded up instead of down.
DeltaCeil(target, source) == (target - source + 1) \div 2

\* delta = (target - source) // 2, Python's floor division
Delta(target, source) == (target - source) \div 2

\* A bound of a Python slice on an axis of length n: a negative bound counts
\* from the end, and every bound is clipped to the axis.
SliceBound(i, n) == IF i < 0 THEN Max(0, i + n) ELSE Min(i, n)

\* imout[r0:r0+img.rows, c0:c0+img.cols] = img. numpy raises ValueError when
\* img's shape cannot be broadcast to the shape of the slice.
AssignWindow(imout, r0, c0, img) ==
    LET rlo == SliceBound(r0, imout.rows)
        rhi == Max(rlo, SliceBound(r0 + img.rows, imout.rows))
        clo == SliceBound(c0, imout.cols)
        chi == Max(clo, SliceBound(c0 + img.cols, imout.cols))
        fits(k, n) == k = n \/ k = 1
    IN  IF fits(img.rows, rhi - rlo) /\ fits(img.cols, chi - clo)
        THEN [status |-> "ok",
              img |-> [imout EXCEPT !.px =
                 [p \in Pixels(imout.rows, imout.cols) |->
                    IF /\ rlo <= p[1] /\ p[1] < rhi
                       /\ clo <= p[2] /\ p[2] < chi
                    THEN img.px[<<IF img.rows = 1 THEN 0 ELSE p[1] - rlo,
                                  IF img.cols = 1 THEN 0 ELSE p[2] - clo>>]
                    ELSE imout.px[p]]]]
        ELSE [status |-> "ValueError", img |-> imout]

\* adjust(self, img, nb_rows, nb_cols, fill_value=0)
Adjust(img, nb_rows, nb_cols, fill_value) ==
    LET imout == Canvas(img, nb_rows, nb_cols, fill_value)
        img1  == CropRows(img, nb_rows)
        img2  == CropCols(img1, nb_cols)
        delta_rows == Delta(nb_rows, img2.rows)
        delta_cols == Delta(nb_cols, img2.cols)
    IN  AssignWindow(imout, delta_rows, delta_cols, img2)

\* The source images adjust is tried on: every shape up to MaxDim x MaxDim, of
\* either dtype, holding either a distinct value at every pixel or all ones.
SourcePixel(kind, cols, p) == IF kind = "ones" THEN 1 ELSE p[1] * cols + p[2] + 1

SourceImage(rows, cols, dtype, kind) ==
    [rows |-> rows, cols |-> cols, dtype |-> dtype,
     px |-> [p \in Pixels(rows, cols) |-> SourcePixel(kind, cols, p)]]

SourceImages ==
    {SourceImage(r, c, d, k) :
        r \in 0 .. MaxDim, c \in 0 .. MaxDim, d \in Dtypes, k \in {"index", "ones"}}

InitAdjust ==
    /\ pc = "adjust"
    /\ adjIn \in [img : SourceImages, nb_rows : 0 .. MaxDim, nb_cols : 0 .. MaxDim,
                  fill_value : FillValues]
    /\ adjOut = None
    /\ regIn = None /\ regOut = None /\ fileImg = None /\ postOut = None
    /\ ovOut = None /\ env = None /\ drv = None /\ log = <<>>

CallAdjust ==
    /\ pc = "adjust"
    /\ adjOut' = Adjust(adjIn.img, adjIn.nb_rows, adjIn.nb_cols, adjIn.fill_value)
    /\ pc' = "returned"
    /\ UNCHANGED <<adjIn, regIn, regOut, fileImg, postOut, ovOut, env, drv, log>>

NextAdjust == CallAdjust

SpecAdjust == InitAdjust /\ [][NextAdjust]_vars

(***************************************************************************)
(* Claims about adjust, checked under SpecAdjust.                          *)
(***************************************************************************)

AdjSrc == adjIn.img
AdjReturned == pc = "returned"

\* C1: for every source image and every target shape (R, C), adjust returns
\* without a shape-mismatch error an image of exactly shape (R, C) whose dtype
\* is the source's dtype.
C1_AdjustShapeAndDtype ==
    AdjReturned =>
        /\ adjOut.status = "ok"
        /\ adjOut.img.rows = adjIn.nb_rows
        /\ adjOut.img.cols = adjIn.nb_cols
        /\ DOMAIN adjOut.img.px = Pixels(adjIn.nb_rows, adjIn.nb_cols)
        /\ adjOut.img.dtype = AdjSrc.dtype

\* C1's case: a source larger than the target on one axis and smaller on the other.
C1_Witness ==
    /\ AdjReturned
    /\ adjOut.status = "ok"
    /\ AdjSrc.rows > adjIn.nb_rows
    /\ AdjSrc.cols < adjIn.nb_cols
    /\ AdjSrc.cols > 0 /\ adjIn.nb_rows > 0

\* C2: a source of shape (r, c) with r <= R and c <= C is placed unchanged at
\* row offset (R-r)//2 and column offset (C-c)//2, and every output pixel
\* outside that window equals fill_value.
C2_FitsPlacedCentred ==
    (AdjReturned /\ AdjSrc.rows <= adjIn.nb_rows /\ AdjSrc.cols <= adjIn.nb_cols) =>
        LET dr == (adjIn.nb_rows - AdjSrc.rows) \div 2
            dc == (adjIn.nb_cols - AdjSrc.cols) \div 2
        IN  /\ adjOut.status = "ok"
            /\ \A p \in Pixels(AdjSrc.rows, AdjSrc.cols) :
                  adjOut.img.px[<<dr + p[1], dc + p[2]>>] = AdjSrc.px[p]
            /\ \A q \in Pixels(adjIn.nb_rows, adjIn.nb_cols) :
                  (\/ q[1] < dr \/ q[1] >= dr + AdjSrc.rows
                   \/ q[2] < dc \/ q[2] >= dc + AdjSrc.cols)
                     => adjOut.img.px[q] = adjIn.fill_value

\* C2's case: a non-empty source that fits, with an odd difference on both axes
\* (the 1-pixel asymmetric border).
C2_Witness ==
    /\ AdjReturned
    /\ AdjSrc.rows > 0 /\ AdjSrc.cols > 0
    /\ adjIn.nb_rows - AdjSrc.rows = 1
    /\ adjIn.nb_cols - AdjSrc.cols = 3
    /\ adjOut.img.px[<<0, 1>>] = AdjSrc.px[<<0, 0>>]

\* The window of one axis: where the source lands and how much of it is kept.
AxisOffset(target, source) == IF source > target THEN 0 ELSE (target - source) \div 2
AxisKept(target, source) == IF source > target THEN target ELSE source

\* C3: cropping is decided per axis and happens before centring: on an axis where
\* the source exceeds the target the output is exactly the first nb_rows rows
\* (first nb_cols columns) of the source, at offset 0 with no padding on that
\* axis, while an axis where the source is smaller is still centred and padded;
\* a (6,6) all-ones source with target (4,4) and fill 0 gives a 4x4 all-ones block.
C3_CropPerAxisTopLeft ==
    (AdjReturned /\ (AdjSrc.rows > adjIn.nb_rows \/ AdjSrc.cols > adjIn.nb_cols)) =>
        LET dr == AxisOffset(adjIn.nb_rows, AdjSrc.rows)
            dc == AxisOffset(adjIn.nb_cols, AdjSrc.cols)
            kr == AxisKept(adjIn.nb_rows, AdjSrc.rows)
            kc == AxisKept(adjIn.nb_cols, AdjSrc.cols)
        IN  /\ adjOut.status = "ok"
            /\ \A q \in Pixels(adjIn.nb_rows, adjIn.nb_cols) :
                  adjOut.img.px[q] =
                     IF /\ dr <= q[1] /\ q[1] < dr + kr
                        /\ dc <= q[2] /\ q[2] < dc + kc
                     THEN AdjSrc.px[<<q[1] - dr, q[2] - dc>>]
                     ELSE adjIn.fill_value
            /\ (AdjSrc.rows > adjIn.nb_rows) => (dr = 0 /\ kr = adjIn.nb_rows)
            /\ (AdjSrc.cols > adjIn.nb_cols) => (dc = 0 /\ kc = adjIn.nb_cols)
            /\ (/\ AdjSrc = SourceImage(6, 6, AdjSrc.dtype, "ones")
                /\ adjIn.nb_rows = 4 /\ adjIn.nb_cols = 4 /\ adjIn.fill_value = 0)
                  => adjOut.img.px = [q \in Pixels(4, 4) |-> 1]

\* C3's case: rows cropped (source taller than the target) while the columns
\* are centred and padded (source narrower, odd difference).
C3_Witness ==
    /\ AdjReturned
    /\ AdjSrc.rows = adjIn.nb_rows + 2
    /\ AdjSrc.cols > 0
    /\ adjIn.nb_cols = AdjSrc.cols + 3
    /\ adjIn.nb_rows > 1
    /\ adjOut.img.px[<<0, 0>>] = adjIn.fill_value
    /\ adjOut.img.px[<<1, 1>>] = AdjSrc.px[<<1, 0>>]

(***************************************************************************)
(* Ilastik.read_region_images and Ilastik.export_empty_cluster_map         *)
(*                                                                         *)
(* The classifier image is block-constant here: every entry of px stands   *)
(* for a TileSide x TileSide block of pixels of one intensity, so that a   *)
(* connected region of n entries has an area of n * TileSide^2 pixels and  *)
(* the area threshold of 400 pixels separates small regions from large     *)
(* ones on a grid of a few entries. Two blocks that touch, also by a       *)
(* corner, hold pixels that touch, so the blocks' 8-connected components   *)
(* are the pixels'. adjust acts on blocks as it does on pixels when the    *)
(* source is cropped (offset 0) or padded by an even number of blocks.     *)
(***************************************************************************)

\* Side, in pixels, of one block of the classifier image.
TileSide == 10

\* Shape, in blocks, of the reference image read by the sequence importer.
RefRows == 4
RefCols == 3

\* Intensities on both sides of every threshold.
Intensities == {4, 5, 124, 125, 250, 251}

\* The neighbours of pixel p: skimage's connectivity 1 counts the 4 pixels that
\* share an edge, connectivity 2 also the 4 that share a corner.
Neighbours(p, connectivity) ==
    {q \in {<<p[1] + di, p[2] + dj>> : di \in {-1, 0, 1}, dj \in {-1, 0, 1}} :
        /\ q # p
        /\ (connectivity = 1) => (q[1] = p[1] \/ q[2] = p[2])}

\* The connected component of S that holds the pixels of seen, of which the
\* pixels of front are those whose neighbours are still to be visited.
RECURSIVE Grow(_, _, _, _)
Grow(seen, front, S, connectivity) ==
    IF front = {} THEN seen
    ELSE LET Visit(new) == Grow(seen \cup new, new, S, connectivity)
         IN  Visit((S \cap UNION {Neighbours(p, connectivity) : p \in front}) \ seen)

\* The connected components of the pixel set S (scipy.ndimage.label).
RECURSIVE Components(_, _)
Components(S, connectivity) ==
    IF S = {} THEN {}
    ELSE LET Split(comp) == {comp} \cup Components(S \ comp, connectivity)
             Seed(p) == Split(Grow({p}, {p}, S, connectivity))
         IN  Seed(CHOOSE x \in S : TRUE)

\* The area in pixels of a set of blocks.
Area(S) == Cardinality(S) * TileSide * TileSide

\* skimage.morphology.remove_small_objects: the components smaller than
\* min_size are dropped.
RemoveSmallObjects(S, min_size, connectivity) ==
    UNION {comp \in Components(S, connectivity) : ~(Area(comp) < min_size)}

\* A boolean array is a record [rows, cols, on]: its shape and the set of the
\* pixels that are True.
\* skimage.morphology.remove_small_holes on a boolean array: the array is
\* inverted, the small objects of the inverse removed, and the result inverted.
RemoveSmallHoles(mask, area_threshold, connectivity) ==
    LET all == Pixels(mask.rows, mask.cols)
    IN  [mask EXCEPT !.on =
            all \ RemoveSmallObjects(all \ mask.on, area_threshold, connectivity)]

\* m = np.zeros(img.shape, dtype=np.uint8); m[img>level] = 255; the mask is
\* m.astype(np.bool)
Above(img, level) ==
    [rows |-> img.rows, cols |-> img.cols,
     on |-> {p \in Pixels(img.rows, img.cols) : img.px[p] > level}]

\* m = np.zeros(img.shape, dtype=np.uint8); m[img<level] = 255
Below(img, level) ==
    [rows |-> img.rows, cols |-> img.cols,
     on |-> {p \in Pixels(img.rows, img.cols) : img.px[p] < level}]

\* bcell[background>0] = 0
Exclude(mask, other) == [mask EXCEPT !.on = mask.on \ other.on]

\* bcell: img > 124, the background excluded, then the small holes filled
\* (lines 73-77).
BcellMask(img, background) ==
    RemoveSmallHoles(Exclude(Above(img, 124), background), 400, 2)

\* background: img > 250, then the small holes filled (lines 68-71).
BackgroundMask(img) == RemoveSmallHoles(Above(img, 250), 400, 2)

\* tcell: img < 5, then the small holes filled (lines 79-82).
TcellMask(img) == RemoveSmallHoles(Below(img, 5), 400, 2)

\* The three masks of an aligned classifier image, in the order
\* read_region_images returns them.
RegionMasks(img) ==
    LET WithBackground(background) ==
            [background |-> background,
             bcell |-> BcellMask(img, background),
             tcell |-> TcellMask(img)]
    IN  WithBackground(BackgroundMask(img))

\* read_region_images from the rescaled classifier image on: the image is
\* aligned with the reference image by adjust (fill value 255) and thresholded.
ReadRegionImages(rescaled, nb_rows, nb_cols) ==
    LET Masks(adjusted) ==
            IF adjusted.status = "ok"
            THEN [status |-> "ok", img |-> adjusted.img] @@ RegionMasks(adjusted.img)
            ELSE [status |-> adjusted.status]
    IN  Masks(Adjust(rescaled, nb_rows, nb_cols, 255))

\* A plausible slip: the two assignments are swapped, so region-B wins.
ClusterMapBcellLast(b_region, t_region) ==
    [rows |-> b_region.rows, cols |-> b_region.cols, dtype |-> "uint8",
     px |-> [p \in Pixels(b_region.rows, b_region.cols) |->
               IF p \in b_region.on THEN 100
               ELSE IF p \in t_region.on THEN 200 ELSE 0]]

\* region_image = zeros(b_region.shape, uint8); [b_region>0] = 100; then
\* [t_region>0] = 200: the later assignment overwrites the earlier one.
ClusterMap(b_region, t_region) ==
    [rows |-> b_region.rows, cols |-> b_region.cols, dtype |-> "uint8",
     px |-> [p \in Pixels(b_region.rows, b_region.cols) |->
               IF p \in t_region.on THEN 200
               ELSE IF p \in b_region.on THEN 100 ELSE 0]]

\* The rescaled classifier images: one intensity everywhere but in a rectangle
\* of a second intensity.
PatchImage(rows, cols, base, patch, r0, r1, c0, c1) ==
    [rows |-> rows, cols |-> cols, dtype |-> "float64",
     px |-> [p \in Pixels(rows, cols) |->
               IF r0 <= p[1] /\ p[1] <= r1 /\ c0 <= p[2] /\ c1 >= p[2]
               THEN patch ELSE base]]

\* The rescaled image is the reference's size, two blocks smaller or a block
\* larger, per axis.
RescaledExtents(ref) == {n \in {ref - 2, ref, ref + 1} : n > 0}

InitRegion ==
    /\ pc = "region"
    /\ \E rows \in RescaledExtents(RefRows), cols \in RescaledExtents(RefCols),
          base \in Intensities, patch \in Intensities :
          \E r0 \in 0 .. rows - 1, c0 \in 0 .. cols - 1 :
             \E r1 \in r0 .. rows - 1, c1 \in c0 .. cols - 1 :
                regIn = [img |-> PatchImage(rows, cols, base, patch, r0, r1, c0, c1),
                         nb_rows |-> RefRows, nb_cols |-> RefCols]
    /\ regOut = None
    /\ adjIn = None /\ adjOut = None /\ fileImg = None /\ postOut = None
    /\ ovOut = None /\ env = None /\ drv = None /\ log = <<>>

\* read_region_images()
CallReadRegionImages ==
    /\ pc = "region"
    /\ regOut' = ReadRegionImages(regIn.img, regIn.nb_rows, regIn.nb_cols)
    /\ pc' = "masks"
    /\ UNCHANGED <<adjIn, adjOut, regIn, fileImg, postOut, ovOut, env, drv, log>>

\* export_empty_cluster_map(filename): the masks are read and the cluster map
\* is saved.
CallExportEmptyClusterMap ==
    /\ pc = "region"
    /\ \E masks \in {ReadRegionImages(regIn.img, regIn.nb_rows, regIn.nb_cols)} :
          regOut' = masks @@ [saved |-> ClusterMap(masks.bcell, masks.tcell)]
    /\ pc' = "exported"
    /\ UNCHANGED <<adjIn, adjOut, regIn, fileImg, postOut, ovOut, env, drv, log>>

NextRegion == CallReadRegionImages \/ CallExportEmptyClusterMap

SpecRegion == InitRegion /\ [][NextRegion]_vars

(***************************************************************************)
(* Claims about the region masks and the cluster map, checked under        *)
(* SpecRegion.                                                             *)
(***************************************************************************)

\* C4: for every aligned classifier image the three masks returned by
\* read_region_images (background, bcell, tcell), each after its small-hole
\* filling, are pairwise disjoint: no pixel is true in more than one mask.
C4_MasksPairwiseDisjoint ==
    (pc = "masks" /\ regOut.status = "ok") =>
        /\ regOut.background.on \cap regOut.bcell.on = {}
        /\ regOut.background.on \cap regOut.tcell.on = {}
        /\ regOut.bcell.on \cap regOut.tcell.on = {}

\* C5: the cluster map written by export_empty_cluster_map has the masks' shape
\* and every pixel is 200 exactly where the tcell mask is true, 100 exactly
\* where the bcell mask is true and the tcell mask false, and 0 elsewhere.
C5_ClusterMapValues ==
    (pc = "exported") =>
        /\ regOut.saved.rows = regOut.bcell.rows
        /\ regOut.saved.cols = regOut.bcell.cols
        /\ DOMAIN regOut.saved.px = Pixels(regOut.bcell.rows, regOut.bcell.cols)
        /\ \A p \in DOMAIN regOut.saved.px :
              /\ regOut.saved.px[p] \in {0, 100, 200}
              /\ regOut.saved.px[p] = 200 <=> p \in regOut.tcell.on
              /\ regOut.saved.px[p] = 100 <=>
                    (p \in regOut.bcell.on /\ p \notin regOut.tcell.on)
              /\ regOut.saved.px[p] = 0 <=>
                    (p \notin regOut.bcell.on /\ p \notin regOut.tcell.on)

\* C5's case: a map written from masks that overlap, holding a pixel of both
\* masks (200) beside a pixel of region-B alone (100).
C5_Witness ==
    /\ pc = "exported"
    /\ \E p \in regOut.bcell.on \cap regOut.tcell.on : regOut.saved.px[p] = 200
    /\ \E q \in regOut.bcell.on \ regOut.tcell.on : regOut.saved.px[q] = 100

\* A map with all three values.
C5_AllValuesReached ==
    /\ pc = "exported"
    /\ \E p, q, r \in DOMAIN regOut.saved.px :
          regOut.saved.px[p] = 0 /\ regOut.saved.px[q] = 100 /\ regOut.saved.px[r] = 200

(***************************************************************************)
(* Ilastik.post_processing and Ilastik.save_overlay                        *)
(*                                                                         *)
(* Both read the classifier output file; its image is held raveled, as the *)
(* sequence of its 8-bit pixels.                                           *)
(***************************************************************************)

\* Number of pixels of the classifier output file.
ImgLen == 3

Uint8 == 0 .. 255

\* 8-bit values around the thresholds of save_overlay, and in between.
Levels == {0, 9, 10, 50, 127, 200, 246, 255}

Range(seq) == {seq[i] : i \in DOMAIN seq}

\* img.min() and img.max()
ArrayMin(img) == CHOOSE m \in Range(img) : \A x \in Range(img) : m <= x
ArrayMax(img) == CHOOSE m \in Range(img) : \A x \in Range(img) : m >= x

\* uint8 - uint8 in numpy: 8-bit, wrapping.
SubUint8(a, b) == (a - b) % 256

\* float64 / uint8 in numpy: the quotient, held exactly as a fraction; a zero
\* divided by zero is NaN and raises nothing (numpy only warns).
TrueDivide(num, den) ==
    IF den # 0 THEN [kind |-> "finite", num |-> num, den |-> den]
    ELSE IF num = 0 THEN [kind |-> "nan"] ELSE [kind |-> "inf"]

\* astype(np.uint8) of a float64: the fraction is truncated, then kept modulo
\* 2^8; the cast of NaN or infinity is undefined, and gives the value nan_cast.
\* (255 * k / d with 0 <= k <= d <= 255 is either an integer, which the float
\* division gives exactly, or at least 1/255 away from one, so the truncation
\* of the float is the truncation of the fraction.)
AsUint8(q, nan_cast) ==
    IF q.kind = "finite" THEN (q.num \div q.den) % 256 ELSE nan_cast

\* A plausible slip: the minimum is not subtracted.
NormalizedNoMin(x, min, max, nan_cast) ==
    AsUint8(TrueDivide(255 * x, SubUint8(max, min)), nan_cast)

\* 255.0 * (img - img.min()) / (img.max() - img.min()), cast to 8 bits, of one
\* pixel x.
Normalized(x, min, max, nan_cast) ==
    AsUint8(TrueDivide(255 * SubUint8(x, min), SubUint8(max, min)), nan_cast)

\* A plausible slip (or a fix that was never made): a constant image is
\* refused, and nothing is written.
PostProcessingGuarded(img, nan_cast) ==
    IF ArrayMax(img) = ArrayMin(img)
    THEN [status |-> "ZeroDivisionError", read |-> img, wrote |-> <<>>]
    ELSE [status |-> "ok", read |-> img,
          wrote |-> [i \in DOMAIN img |->
                       Normalized(img[i], ArrayMin(img), ArrayMax(img), nan_cast)]]

\* post_processing(): the image read, and the image saved over it.
PostProcessing(img, nan_cast) ==
    [status |-> "ok", read |-> img,
     wrote |-> [i \in DOMAIN img |->
                  Normalized(img[i], ArrayMin(img), ArrayMax(img), nan_cast)]]

\* segmentation[cond] = value, for the pixels whose value is in matching
Reassign(seg, matching, value) ==
    [i \in DOMAIN seg |-> IF seg[i] \in matching THEN value ELSE seg[i]]

\* The 8-bit values that the k-th reassignment of save_overlay matches:
\* segmentation<10, (segmentation>120) * (segmentation<135), segmentation>245.
OverlayBand(k) ==
    CASE k = 1 -> {v \in Uint8 : v < 10}
      [] k = 2 -> {v \in Uint8 : v > 120 /\ v < 135}
      [] k = 3 -> {v \in Uint8 : v > 245}

\* A plausible slip: the background is relabelled first, and its 0 is then
\* taken for a value below 10.
RelabelBackgroundFirst(seg) ==
    LET Third(s1, s2) == <<seg, s1, s2, Reassign(s2, OverlayBand(2), 2)>>
        Second(s1) == Third(s1, Reassign(s1, OverlayBand(1), 1))
    IN  Second(Reassign(seg, OverlayBand(3), 0))

\* The segmentation as read and after each of the three reassignments:
\* segmentation[segmentation<10] = 1
\* segmentation[(segmentation>120) * (segmentation<135)] = 2
\* segmentation[segmentation>245] = 0
Relabel(seg) ==
    LET Third(s1, s2) == <<seg, s1, s2, Reassign(s2, OverlayBand(3), 0)>>
        Second(s1) == Third(s1, Reassign(s1, OverlayBand(2), 2))
    IN  Second(Reassign(seg, OverlayBand(1), 1))

\* save_overlay(): the label image handed to Overlays.overlay_rgb_img with the
\* colours {1: red, 2: green}, and the file the overlay is saved to.
SaveOverlay(seg) ==
    [status |-> "ok",
     steps |-> Relabel(seg),
     colors |-> [label \in {1, 2} |-> IF label = 1 THEN <<255, 0, 0>> ELSE <<0, 255, 0>>],
     saved |-> "segmentation_overlay_ilastik"]

\* An operation that was not called yet.
NotRun == [status |-> "not run"]

InitFile ==
    /\ pc = "file"
    /\ \E first \in Uint8, rest \in [2 .. ImgLen -> Levels] :
          fileImg = [i \in 1 .. ImgLen |-> IF i = 1 THEN first ELSE rest[i]]
    /\ postOut = NotRun /\ ovOut = NotRun
    /\ adjIn = None /\ adjOut = None /\ regIn = None /\ regOut = None
    /\ env = None /\ drv = None /\ log = <<>>

\* post_processing(): the file is read, normalized and overwritten in place.
CallPostProcessing ==
    /\ pc = "file" /\ postOut = NotRun
    /\ \/ /\ ArrayMax(fileImg) # ArrayMin(fileImg)
          /\ postOut' = PostProcessing(fileImg, 0)
       \/ /\ ArrayMax(fileImg) = ArrayMin(fileImg)
          /\ \E nan_cast \in Uint8 : postOut' = PostProcessing(fileImg, nan_cast)
    /\ fileImg' = IF postOut'.status = "ok" THEN postOut'.wrote ELSE fileImg
    /\ UNCHANGED <<pc, adjIn, adjOut, regIn, regOut, ovOut, env, drv, log>>

\* save_overlay(): the file is read and relabelled; the file is left as it is.
CallSaveOverlay ==
    /\ pc = "file" /\ ovOut = NotRun
    /\ ovOut' = SaveOverlay(fileImg)
    /\ UNCHANGED <<pc, adjIn, adjOut, regIn, regOut, fileImg, postOut, env, drv, log>>

NextFile == CallPostProcessing \/ CallSaveOverlay

SpecFile == InitFile /\ [][NextFile]_vars

(***************************************************************************)
(* Claims about post_processing and save_overlay, checked under SpecFile.  *)
(***************************************************************************)

PostRan == postOut.status # "not run"
PostConstant == ArrayMax(postOut.read) = ArrayMin(postOut.read)

\* C6: for every non-constant 8-bit image, post_processing writes an image
\* whose minimum is 0 and maximum 255, in which every pixel x is the 8-bit
\* truncation of 255*(x-min)/(max-min), the input's minimum pixels being 0 and
\* its maximum pixels 255, and the mapping is monotonic non-decreasing.
C6_PostNormalizes ==
    (PostRan /\ ~PostConstant) =>
        LET in == postOut.read
            out == postOut.wrote
            lo == ArrayMin(in)
            hi == ArrayMax(in)
        IN  /\ postOut.status = "ok"
            /\ fileImg = out
            /\ DOMAIN out = DOMAIN in
            /\ ArrayMin(out) = 0
            /\ ArrayMax(out) = 255
            /\ \A i \in DOMAIN in :
                  /\ out[i] \in Uint8
                  /\ out[i] * (hi - lo) <= 255 * (in[i] - lo)
                  /\ 255 * (in[i] - lo) < (out[i] + 1) * (hi - lo)
                  /\ (in[i] = lo) => (out[i] = 0)
                  /\ (in[i] = hi) => (out[i] = 255)
            /\ \A i, j \in DOMAIN in : (in[i] <= in[j]) => (out[i] <= out[j])

\* C6's case: an image with minimum 50 and maximum 200 and a value in between,
\* normalized to 0, 255 and a value strictly in between.
C6_Witness ==
    /\ PostRan
    /\ ArrayMin(postOut.read) = 50
    /\ ArrayMax(postOut.read) = 200
    /\ postOut.read[1] = 101
    /\ fileImg[1] = 86
    /\ 0 \in Range(fileImg) /\ 255 \in Range(fileImg)

\* C8: for a constant-valued image post_processing has no guard and does not
\* fail: the division by zero raises no error, the operation completes and the
\* file is overwritten in place, with undefined content.
C8_PostConstantCompletes ==
    (PostRan /\ PostConstant) =>
        /\ postOut.status = "ok"
        /\ fileImg = postOut.wrote
        /\ DOMAIN fileImg = DOMAIN postOut.read
        /\ \A i \in DOMAIN fileImg : fileImg[i] \in Uint8

\* C8's case: a constant image of 200s overwritten with something else.
C8_Witness ==
    /\ PostRan
    /\ postOut.read = [i \in 1 .. ImgLen |-> 200]
    /\ postOut.status = "ok"
    /\ fileImg = [i \in 1 .. ImgLen |-> 0]

OvRan == ovOut.status # "not run"

\* The label the claim gives to an original 8-bit value.
OverlayLabel(v) ==
    IF v < 10 THEN 1
    ELSE IF 121 <= v /\ v <= 134 THEN 2
    ELSE IF v > 245 THEN 0
    ELSE v

\* Whether value v meets the condition of the k-th reassignment the claim lists.
Matched(k, v) ==
    \/ k = 1 /\ v < 10
    \/ k = 2 /\ v > 120 /\ v < 135
    \/ k = 3 /\ v > 245

\* C9: the three reassignments of save_overlay, applied in the order
\* (<10 -> 1), (>120 and <135 -> 2), (>245 -> 0), relabel each pixel at most
\* once: the final label depends on the original value alone (below 10 gives 1,
\* 121..134 gives 2, above 245 gives 0, anything else is unchanged), and no
\* value written by an earlier reassignment is matched by a later one.
C9_OverlayRelabelOnce ==
    OvRan =>
        LET steps == ovOut.steps
        IN  \A i \in DOMAIN steps[1] :
               /\ steps[4][i] = OverlayLabel(steps[1][i])
               /\ Cardinality({k \in 1 .. 3 : Matched(k, steps[k][i])}) <= 1
               /\ \A k \in 1 .. 3 :
                     Matched(k, steps[k][i]) =>
                        \A j \in k + 1 .. 4 : steps[j][i] = steps[k + 1][i]

\* C9's case: one image holding a pixel of each band, relabelled 1, 2 and 0.
C9_Witness ==
    /\ OvRan
    /\ ovOut.steps[1] = <<130, 9, 246>>
    /\ ovOut.steps[4] = <<2, 1, 0>>

(***************************************************************************)
(* Ilastik.__init__ and the command-line script                            *)
(***************************************************************************)

\* The settings before any was assigned.
NoSettings == [source |-> "none", tissue |-> "none", makefolders |-> <<>>]

\* Settings(os.path.abspath(settings_filename), dctGlobals=globals()), and a
\* settings object handed in by the caller: both name the folders to make.
SettingsFrom(source) ==
    [source |-> source, tissue |-> "default",
     makefolders |-> <<"output/default", "ilastik/default">>]

\* overwrite_settings(self.settings, tissue_id): the tissue's variant of the
\* settings, with the tissue's folders.
OverwriteSettings(settings, tissue_id) ==
    [settings EXCEPT !.tissue = tissue_id,
                     !.makefolders = <<"output/tissue", "ilastik/tissue">>]

AllFolders == {"output/default", "ilastik/default", "output/tissue", "ilastik/tissue"}

\* for folder in makefolders: if not os.path.exists(folder): os.makedirs(folder)
RECURSIVE MakeFolders(_, _)
MakeFolders(makefolders, disk) ==
    IF makefolders = <<>> THEN [made |-> <<>>, disk |-> disk]
    ELSE LET folder == Head(makefolders)
             Rest(d) == MakeFolders(Tail(makefolders), d)
         IN  IF folder \in disk
             THEN Rest(disk)
             ELSE [made |-> <<folder>> \o Rest(disk \cup {folder}).made,
                   disk |-> Rest(disk \cup {folder}).disk]

\* The part of __init__ after self.settings was assigned (lines 30-38).
Configure(settings, loaded, tissue_id, disk) ==
    LET Folders(final) ==
            [error |-> None, settings |-> final, loaded |-> loaded,
             overwritten |-> tissue_id # None]
            @@ MakeFolders(final.makefolders, disk)
    IN  Folders(IF tissue_id # None THEN OverwriteSettings(settings, tissue_id)
                ELSE settings)

\* A constructor that raised: nothing was assigned, overwritten or made.
Raised(error, loaded, disk) ==
    [error |-> error, settings |-> NoSettings, loaded |-> loaded,
     overwritten |-> FALSE, made |-> <<>>, disk |-> disk]

\* A plausible slip: the constructor wants both a settings object and a filename.
ConstructNeedsBoth(settings_filename, settings, tissue_id, disk, readable) ==
    IF settings = None \/ settings_filename = None
    THEN Raised("ValueError", FALSE, disk)
    ELSE Configure(SettingsFrom("object"), FALSE, tissue_id, disk)

\* Ilastik.__init__(settings_filename, settings, tissue_id); readable tells
\* whether the settings file can be loaded.
Construct(settings_filename, settings, tissue_id, disk, readable) ==
    IF settings = None /\ settings_filename = None
    THEN Raised("ValueError", FALSE, disk)
    ELSE IF settings # None
    THEN Configure(SettingsFrom("object"), FALSE, tissue_id, disk)
    ELSE IF readable
    THEN Configure(SettingsFrom("file"), TRUE, tissue_id, disk)
    ELSE Raised("IOError", TRUE, disk)

\* The operations of the script, named by their flags.
Operations == {"prepare", "post", "save_overlay", "export_empty_cluster_map"}

\* if args.prepare / args.post / args.save_overlay /
\* not args.export_empty_cluster_map is None
Selected(flags, op) ==
    IF op = "export_empty_cluster_map" THEN flags[op] # None ELSE flags[op] = "True"

\* A plausible slip: the overlay is saved before the post-processing.
AfterSwapped(op) ==
    CASE op = "prepare" -> "save_overlay"
      [] op = "save_overlay" -> "post"
      [] op = "post" -> "export_empty_cluster_map"
      [] op = "export_empty_cluster_map" -> "exit"

\* Where the script goes after the if statement of op (lines 179-193).
After(op) ==
    CASE op = "prepare" -> "post"
      [] op = "post" -> "save_overlay"
      [] op = "save_overlay" -> "export_empty_cluster_map"
      [] op = "export_empty_cluster_map" -> "exit"

\* The flags of one invocation: the three switches, and the optional filename
\* of the cluster map.
FlagSets ==
    {[op \in Operations |-> IF op = "export_empty_cluster_map"
                            THEN (IF x THEN "map.png" ELSE None)
                            ELSE (IF op \in on THEN "True" ELSE "False")] :
        on \in SUBSET {"prepare", "post", "save_overlay"}, x \in BOOLEAN}

NoFlags == [op \in Operations |-> IF op = "export_empty_cluster_map" THEN None ELSE "False"]

\* The script always passes its required --settings_file and no settings
\* object; a caller of the class may pass either, both or none.
InitMain ==
    /\ pc = "construct"
    /\ \E disk \in SUBSET AllFolders, tissue_id \in {None, "tissue"} :
          \/ \E flags \in FlagSets :
                env = [entry |-> "script", settings_filename |-> "settings.py",
                       settings |-> None, tissue_id |-> tissue_id,
                       flags |-> flags, disk |-> disk]
          \/ \E settings_filename \in {None, "settings.py"}, settings \in {None, "object"} :
                env = [entry |-> "caller", settings_filename |-> settings_filename,
                       settings |-> settings, tissue_id |-> tissue_id,
                       flags |-> NoFlags, disk |-> disk]
    /\ drv = Raised(None, FALSE, env.disk)
    /\ log = <<>>
    /\ adjIn = None /\ adjOut = None /\ regIn = None /\ regOut = None
    /\ fileImg = None /\ postOut = None /\ ovOut = None

\* il = Ilastik(args.settings_file, tissue_id=args.tissue_id), or a caller's
\* construction; an error raised ends the invocation.
CallConstruct ==
    /\ pc = "construct"
    /\ \E readable \in BOOLEAN :
          drv' = Construct(env.settings_filename, env.settings, env.tissue_id,
                           env.disk, readable)
    /\ pc' = IF drv'.error # None THEN "raised"
             ELSE IF env.entry = "script" THEN "prepare" ELSE "constructed"
    /\ UNCHANGED <<adjIn, adjOut, regIn, regOut, fileImg, postOut, ovOut, env, log>>

\* One if statement of the script: when the flag is given the banner is
\* printed and the operation called; the operation returns, or raises (an I/O
\* or array error), which ends the invocation.
RunIf(op) ==
    /\ \/ /\ ~Selected(env.flags, op)
          /\ pc' = After(op)
          /\ log' = log
       \/ /\ Selected(env.flags, op)
          /\ pc' = After(op)
          /\ log' = log \o <<<<"banner", op>>, <<"call", op>>>>
       \/ /\ Selected(env.flags, op)
          /\ pc' = "raised"
          /\ log' = log \o <<<<"banner", op>>, <<"call", op>>, <<"raise", op>>>>
    /\ UNCHANGED <<adjIn, adjOut, regIn, regOut, fileImg, postOut, ovOut, env, drv>>

IfPrepare == pc = "prepare" /\ RunIf("prepare")
IfPost == pc = "post" /\ RunIf("post")
IfSaveOverlay == pc = "save_overlay" /\ RunIf("save_overlay")
IfExportEmptyClusterMap == pc = "export_empty_cluster_map" /\ RunIf("export_empty_cluster_map")

NextMain ==
    \/ CallConstruct
    \/ IfPrepare
    \/ IfPost
    \/ IfSaveOverlay
    \/ IfExportEmptyClusterMap

SpecMain == InitMain /\ [][NextMain]_vars

(***************************************************************************)
(* Claims about the constructor and the script, checked under SpecMain.    *)
(***************************************************************************)

Constructed == pc # "construct"
Elements(seq) == {seq[i] : i \in DOMAIN seq}

\* C7: constructing the driver with neither a settings object nor a settings
\* filename fails at once with a configuration error, before any settings are
\* loaded, any tissue-id override is applied or any folder is created; when a
\* settings object is supplied it is used, the filename is ignored, and the
\* construction goes on to the override and the creation of the folders.
C7_ConstructorSettings ==
    Constructed =>
        /\ (env.settings = None /\ env.settings_filename = None) =>
              /\ pc = "raised"
              /\ drv.error = "ValueError"
              /\ drv.settings = NoSettings
              /\ ~drv.loaded /\ ~drv.overwritten
              /\ drv.made = <<>>
              /\ drv.disk = env.disk
              /\ log = <<>>
        /\ (env.settings # None) =>
              /\ pc = "constructed"
              /\ drv.error = None
              /\ drv.settings.source = "object"
              /\ ~drv.loaded
              /\ drv.overwritten <=> (env.tissue_id # None)
              /\ drv.settings.tissue =
                    (IF env.tissue_id # None THEN env.tissue_id ELSE "default")
              /\ Elements(drv.settings.makefolders) \subseteq drv.disk
              /\ Elements(drv.made) = Elements(drv.settings.makefolders) \ env.disk
              /\ drv.disk = env.disk \cup Elements(drv.made)

\* C7's case: a construction with neither argument, with a tissue id given and
\* folders missing, that raised and left the disk as it was.
C7_Witness ==
    /\ pc = "raised"
    /\ env.settings = None /\ env.settings_filename = None
    /\ env.tissue_id # None
    /\ drv.error = "ValueError"
    /\ drv.disk = {} /\ env.disk = {}

\* The other half of C7: an object and a filename are both given, and the
\* object's settings are overwritten for the tissue and its folders made.
C7_ObjectUsedReached ==
    /\ pc = "constructed"
    /\ env.settings # None /\ env.settings_filename # None
    /\ drv.overwritten
    /\ Len(drv.made) = 2

\* The script's order of operations, and what the flags select.
ScriptOrder == <<"prepare", "post", "save_overlay", "export_empty_cluster_map">>
FlagGiven(op) == env.flags[op] \notin {"False", None}
SelectedInOrder == SelectSeq(ScriptOrder, FlagGiven)
Calls == [i \in 1 .. Cardinality({k \in DOMAIN log : log[k][1] = "call"}) |->
             LET k == CHOOSE k \in DOMAIN log :
                         /\ log[k][1] = "call"
                         /\ Cardinality({m \in 1 .. k : log[m][1] = "call"}) = i
             IN  log[k][2]]
IsPrefix(a, b) == Len(a) <= Len(b) /\ \A i \in 1 .. Len(a) : a[i] = b[i]
Position(op) == CHOOSE i \in 1 .. 4 : ScriptOrder[i] = op

\* C10: for any combination of the four flags, the selected operations run
\* after the construction in the order prepare, post_processing, save_overlay,
\* export_empty_cluster_map, each right after its banner and at most once;
\* unselected operations never run, and a failing operation ends the
\* invocation, so the operations run are a prefix of the selected ones.
C10_ScriptOrder ==
    /\ IsPrefix(Calls, SelectedInOrder)
    /\ \A i, j \in DOMAIN Calls : (Calls[i] = Calls[j]) => (i = j)
    /\ \A k \in DOMAIN log :
          /\ (log[k][1] = "call") => (k > 1 /\ log[k - 1] = <<"banner", log[k][2]>>)
          /\ (log[k][1] = "banner") =>
                (k < Len(log) /\ log[k + 1] = <<"call", log[k][2]>>)
          /\ (log[k][1] = "raise") =>
                (k = Len(log) /\ pc = "raised" /\ log[k - 1] = <<"call", log[k][2]>>)
    /\ (log # <<>>) => (Constructed /\ drv.error = None /\ env.entry = "script")
    /\ (pc \in Operations) =>
          Calls = SelectSeq(SelectedInOrder, LAMBDA op : Position(op) < Position(pc))
    /\ (pc = "exit") => (Calls = SelectedInOrder)

\* C10's case: prepare, save_overlay and the export are selected and post is
\* not; prepare ran, save_overlay failed, and the export never ran.
C10_Witness ==
    /\ pc = "raised"
    /\ SelectedInOrder = <<"prepare", "save_overlay", "export_empty_cluster_map">>
    /\ log = <<<<"banner", "prepare">>, <<"call", "prepare">>,
               <<"banner", "save_overlay">>, <<"call", "save_overlay">>,
               <<"raise", "save_overlay">>>>

====
